---- MODULE Spec2Model ----
(***************************************************************************)
(* Model of the stylesheet abbreviation resolver                           *)
(* (src/src/stylesheet/index.ts) and of the generic tree walker            *)
(* (src/unnamed/part_000).                                                 *)
(*                                                                         *)
(* Strings are sequences of one-character strings, so that indexOf, slice  *)
(* and concatenation are computed character by character.                  *)
(* Scores are the rationals k / ScoreOne, kept as the integer k.           *)
(***************************************************************************)
EXTENDS Integers, Sequences, FiniteSets, TLC

VARIABLES
    unmatched,  \* one call of getUnmatchedPart: arguments and result
    match,      \* one call of findBestMatch: arguments, score table, result
    numeric,    \* repeated calls of resolveNumericValue on one node
    snippets,   \* the snippet table shared by all resolutions (heap objects)
    built,      \* the snippet table as convertSnippets built it
    config,     \* the Config of the resolution
    parsed,     \* the call of parse: the node as parsed, and what was done
    cssNode,    \* the CSSProperty node being resolved
    state,      \* WalkState: current, parent, ancestors
    stack,      \* walk: the activation records of callback()
    top,        \* walk: position of abbr.children.forEach
    last,       \* walk: the visitor invocation that returned last
    start       \* walk: the WalkState the walk was started with

walkVars == <<state, stack, top, last, start>>
resolveVars == <<snippets, built, config, parsed, cssNode>>
vars == <<unmatched, match, numeric, resolveVars, walkVars>>

-----------------------------------------------------------------------------
(* Bounds of the model *)

\* longest enumerated string handed to getUnmatchedPart
MaxLen == 3
\* longest item list handed to findBestMatch
MaxItems == 3
\* scores are k / ScoreOne for k in 0..ScoreOne; ScoreOne stands for 1.0
ScoreOne == 3
\* height of the walked tree below the abbreviation root
Depth == 3
\* children per inner node of the walked tree
Fanout == 2

-----------------------------------------------------------------------------
(* Strings *)

Alphabet == {"p", "o", "s"}

RECURSIVE StringsOfLen(_)
StringsOfLen(n) ==
    IF n = 0 THEN {<<>>}
    ELSE {Append(s, c) : s \in StringsOfLen(n - 1), c \in Alphabet}

Strings == UNION {StringsOfLen(n) : n \in 0..MaxLen}

\* String.prototype.slice(i) for 0 <= i
slice(s, i) == SubSeq(s, i + 1, Len(s))

\* String.prototype.indexOf(ch, from): 0-based position of the first
\* occurrence of the character ch at or after `from`, or -1
indexOf(str, ch, from) ==
    LET hits == {k \in from..(Len(str) - 1) : str[k + 1] = ch}
    IN  IF hits = {} THEN -1
        ELSE CHOOSE k \in hits : \A m \in hits : k <= m

-----------------------------------------------------------------------------
(* getUnmatchedPart *)

RECURSIVE unmatchedLoop(_, _, _, _)
unmatchedLoop(abbr, str, i, lastPos) ==
    IF i >= Len(abbr) THEN <<>>
    ELSE LET found == indexOf(str, abbr[i + 1], lastPos)
         IN  IF found = -1 THEN slice(abbr, i)
             ELSE unmatchedLoop(abbr, str, i + 1, found + 1)

\* the loop with `lastPos++` left out: a character of str is matched twice
RECURSIVE unmatchedLoopNoAdvance(_, _, _, _)
unmatchedLoopNoAdvance(abbr, str, i, lastPos) ==
    IF i >= Len(abbr) THEN <<>>
    ELSE LET found == indexOf(str, abbr[i + 1], lastPos)
         IN  IF found = -1 THEN slice(abbr, i)
             ELSE unmatchedLoopNoAdvance(abbr, str, i + 1, found)

getUnmatchedPartNoAdvance(abbr, str) == unmatchedLoopNoAdvance(abbr, str, 0, 0)

getUnmatchedPart(abbr, str) == unmatchedLoop(abbr, str, 0, 0)

-----------------------------------------------------------------------------
(* findBestMatch *)

Scores == 0..ScoreOne

\* calculateScore(abbr, str): the scorer. table[str] is the score the scorer
\* gives the candidate str for the pattern of this call; identical strings
\* score 1.
calculateScore(table, abbr, str) ==
    IF abbr = str THEN ScoreOne ELSE table[str]

\* kind = "string": the item is the scoring part; otherwise the item is a
\* keyword reference (keyword, index) or a snippet (key, ...)
getScoringPart(kind, item) ==
    IF kind = "string" THEN item
    ELSE IF "keyword" \in DOMAIN item /\ item.keyword # <<>> THEN item.keyword
    ELSE item.key

\* The loop of findBestMatch from item i on. The result is the position of
\* the matched item in `items` (0 is null) and the final maxScore; `hit`
\* tells the early return on a score of 1.
RECURSIVE bestMatchLoop(_, _, _, _, _, _, _)
bestMatchLoop(abbr, items, kind, table, i, matchedItem, maxScore) ==
    IF i > Len(items)
    THEN [matchedItem |-> matchedItem, maxScore |-> maxScore, hit |-> FALSE]
    ELSE LET score == calculateScore(table, abbr, getScoringPart(kind, items[i]))
         IN  IF score = ScoreOne
             THEN [matchedItem |-> i, maxScore |-> maxScore, hit |-> TRUE]
             ELSE IF score # 0 /\ score >= maxScore
             THEN bestMatchLoop(abbr, items, kind, table, i + 1, i, score)
             ELSE bestMatchLoop(abbr, items, kind, table, i + 1, matchedItem, maxScore)

\* the loop with `score > maxScore`: an equal later score does not overwrite
RECURSIVE bestMatchLoopStrict(_, _, _, _, _, _, _)
bestMatchLoopStrict(abbr, items, kind, table, i, matchedItem, maxScore) ==
    IF i > Len(items)
    THEN [matchedItem |-> matchedItem, maxScore |-> maxScore, hit |-> FALSE]
    ELSE LET score == calculateScore(table, abbr, getScoringPart(kind, items[i]))
         IN  IF score = ScoreOne
             THEN [matchedItem |-> i, maxScore |-> maxScore, hit |-> TRUE]
             ELSE IF score # 0 /\ score > maxScore
             THEN bestMatchLoopStrict(abbr, items, kind, table, i + 1, i, score)
             ELSE bestMatchLoopStrict(abbr, items, kind, table, i + 1, matchedItem, maxScore)

\* findBestMatch with line 146 returning matchedItem whatever minScore is
findBestMatchNoMin(abbr, items, minScore, kind, table) ==
    bestMatchLoop(abbr, items, kind, table, 1, 0, 0).matchedItem

findBestMatchStrict(abbr, items, minScore, kind, table) ==
    LET r == bestMatchLoopStrict(abbr, items, kind, table, 1, 0, 0)
    IN  IF r.hit THEN r.matchedItem
        ELSE IF r.maxScore >= minScore THEN r.matchedItem ELSE 0

findBestMatch(abbr, items, minScore, kind, table) ==
    LET r == bestMatchLoop(abbr, items, kind, table, 1, 0, 0)
    IN  IF r.hit THEN r.matchedItem
        ELSE IF r.maxScore >= minScore THEN r.matchedItem ELSE 0

-----------------------------------------------------------------------------
(* Numbers *)

\* A JavaScript number of a NumberValue token: hi * 2^16 + lo, plus one half
\* when `half`; 0 <= lo < 2^16 and hi is any integer, so the numbers on both
\* sides of the 32-bit signed range are told apart.
Two16 == 256 * 256
Two15 == 128 * 256

Num(hi, lo, half) == [hi |-> hi, lo |-> lo, half |-> half]

Zero == Num(0, 0, FALSE)

\* n + 1 for a whole number n
succ(n) == IF n.lo = Two16 - 1 THEN Num(n.hi + 1, 0, FALSE)
           ELSE Num(n.hi, n.lo + 1, FALSE)

\* -n for a whole number n
negate(n) == IF n.lo = 0 THEN Num(-n.hi, 0, FALSE)
             ELSE Num(-n.hi - 1, Two16 - n.lo, FALSE)

\* the integer part of v, rounded towards zero
truncate(v) ==
    LET floor == Num(v.hi, v.lo, FALSE)
    IN  IF v.half /\ v.hi < 0 THEN succ(floor) ELSE floor

\* v | 0: ToInt32, the integer part modulo 2^32 in the signed 32-bit range
toInt32(v) ==
    LET n == truncate(v)
    IN  Num(((n.hi + Two15) % Two16) - Two15, n.lo, FALSE)

Digit(d) == <<"0", "1", "2", "3", "4", "5", "6", "7", "8", "9">>[d + 1]

RECURSIVE digits(_)
digits(n) == IF n < 10 THEN <<Digit(n)>> ELSE Append(digits(n \div 10), Digit(n % 10))

\* the four low decimal digits of n, with leading zeros
pad4(n) == <<Digit((n \div 1000) % 10), Digit((n \div 100) % 10),
             Digit((n \div 10) % 10), Digit(n % 10)>>

\* decimal numeral of a whole number n >= 0 (below 2^33)
numeral(n) ==
    LET low == n.hi * 5536 + n.lo
        high == n.hi * 6 + (low \div 10000)
    IN  IF high = 0 THEN digits(low) ELSE digits(high) \o pad4(low % 10000)

\* `${v}`: Number.prototype.toString for the numbers above
numberToString(v) ==
    LET neg == v.hi < 0
        whole == IF neg THEN negate(truncate(v)) ELSE truncate(v)
    IN  (IF neg THEN <<"-">> ELSE <<>>) \o numeral(whole)
            \o (IF v.half THEN <<".", "5">> ELSE <<>>)

-----------------------------------------------------------------------------
(* Tokens and values *)

literal(value) == [type |-> "Literal", value |-> value]

field(index, name) == [type |-> "Field", index |-> index, name |-> name]

NumberValue(value, unit) == [type |-> "NumberValue", value |-> value, unit |-> unit]

ColorValue(raw) == [type |-> "ColorValue", raw |-> raw]

StringValue(value, quote) == [type |-> "StringValue", value |-> value, quote |-> quote]

FunctionCall(name, arguments) ==
    [type |-> "FunctionCall", name |-> name, arguments |-> arguments]

CSSValue(value) == [type |-> "CSSValue", value |-> value]

literalValue(value) == CSSValue(<<literal(value)>>)

\* hasField for a list of tokens and for a list of argument values
RECURSIVE tokensHaveField(_)
tokensHaveField(toks) ==
    \E k \in 1..Len(toks) :
        \/ toks[k].type = "Field"
        \/ /\ toks[k].type = "FunctionCall"
           /\ \E a \in 1..Len(toks[k].arguments) :
                  tokensHaveField(toks[k].arguments[a].value)

hasField(value) == tokensHaveField(value.value)

\* wrapWithField: the tokens toks[k..] wrapped with state.index = index.
\* The result carries the wrapped tokens and the index left in `state`.
RECURSIVE wrapTokens(_, _, _)
RECURSIVE wrapArguments(_, _, _)
wrapTokens(toks, k, index) ==
    IF k > Len(toks) THEN [value |-> <<>>, index |-> index]
    ELSE LET v == toks[k]
             head ==
                 CASE v.type = "ColorValue" ->
                        [value |-> <<field(index, v.raw)>>, index |-> index + 1]
                   [] v.type = "Literal" ->
                        [value |-> <<field(index, v.value)>>, index |-> index + 1]
                   [] v.type = "NumberValue" ->
                        [value |-> <<field(index, numberToString(v.value) \o v.unit)>>,
                         index |-> index + 1]
                   [] v.type = "StringValue" ->
                        LET q == IF v.quote = "single" THEN <<"'">> ELSE <<"\"">>
                        IN  [value |-> <<field(index, q \o v.value \o q)>>,
                             index |-> index + 1]
                   [] v.type = "FunctionCall" ->
                        LET args == wrapArguments(v.arguments, 1, index + 1)
                        IN  [value |-> <<field(index, v.name), literal(<<"(">>)>>
                                          \o args.value \o <<literal(<<")">>)>>,
                             index |-> args.index]
                   [] OTHER -> [value |-> <<v>>, index |-> index]
             rest == wrapTokens(toks, k + 1, head.index)
         IN  [value |-> head.value \o rest.value, index |-> rest.index]

wrapArguments(arguments, i, index) ==
    IF i > Len(arguments) THEN [value |-> <<>>, index |-> index]
    ELSE LET arg == wrapTokens(arguments[i].value, 1, index)
             comma == IF i # Len(arguments) THEN <<literal(<<",", " ">>)>> ELSE <<>>
             rest == wrapArguments(arguments, i + 1, arg.index)
         IN  [value |-> arg.value \o comma \o rest.value, index |-> rest.index]

\* wrapWithField(node, state) with state.index = index; `index` in the result
\* is state.index afterwards
wrapWithField(node, index) ==
    LET w == wrapTokens(node.value, 1, index)
    IN  [node |-> [node EXCEPT !.value = w.value], index |-> w.index]

\* defaultValue.map(n => wrapWithField(n)): every element is wrapped with a
\* state of its own, { index: 1 }
wrapDefaultValue(defaultValue) ==
    [i \in 1..Len(defaultValue) |-> wrapWithField(defaultValue[i], 1).node]

-----------------------------------------------------------------------------
(* resolveNumericValue *)

\* aliases[unit] || unit
aliasOf(aliases, unit) ==
    IF unit \in DOMAIN aliases /\ aliases[unit] # <<>> THEN aliases[unit] ELSE unit

\* lines 208-218 with the default unit also given to a token whose unit has
\* no alias
resolveNumericTokenOverwrite(t, name, cfg) ==
    IF t.type # "NumberValue" THEN t
    ELSE IF t.unit # <<>> /\ t.unit \in DOMAIN cfg.unitAliases
    THEN [t EXCEPT !.unit = aliasOf(cfg.unitAliases, t.unit)]
    ELSE IF t.value # Zero /\ name \notin cfg.unitless
    THEN [t EXCEPT !.unit = IF t.value = toInt32(t.value)
                            THEN cfg.intUnit ELSE cfg.floatUnit]
    ELSE t

\* lines 208-218 for one token t of a value of the node called `name`
resolveNumericToken(t, name, cfg) ==
    IF t.type # "NumberValue" THEN t
    ELSE IF t.unit # <<>>
    THEN [t EXCEPT !.unit = aliasOf(cfg.unitAliases, t.unit)]
    ELSE IF t.value # Zero /\ name \notin cfg.unitless
    THEN [t EXCEPT !.unit = IF t.value = toInt32(t.value)
                            THEN cfg.intUnit ELSE cfg.floatUnit]
    ELSE t

\* resolveNumericValue on node.value (a list of CSSValue) of the node `name`:
\* the value list after the in-place updates of its tokens
resolveNumericValue(value, name, cfg) ==
    [v \in 1..Len(value) |->
        [value[v] EXCEPT !.value =
            [t \in 1..Len(value[v].value) |->
                resolveNumericToken(value[v].value[t], name, cfg)]]]
-----------------------------------------------------------------------------
(* Nodes, snippets and the heap *)

\* node.value is a reference to an array. It is either an array the node
\* owns (built by the parser or by the resolver for this node), kept in
\* `own`, or the array snippets[ref[1]].value[ref[2]] of the snippet table,
\* shared with it together with the values and tokens it holds.
NoRef == <<0, 0>>

Own(list) == [ref |-> NoRef, own |-> list]

Shared(si, vi) == [ref |-> <<si, vi>>, own |-> <<>>]

\* node.name after `node.name = void 0`
Void == <<"void 0">>

\* config.context when no context is configured
NoContext == <<"no context">>

\* the array node.value refers to
valueOf(node, snips) ==
    IF node.value.ref = NoRef THEN node.value.own
    ELSE snips[node.value.ref[1]].value[node.value.ref[2]]

\* getKeywords(snippet): the keyword aliases of a Property snippet, each a
\* CSSKeywordRef [keyword, index] with index a 0-based position in
\* snippet.value
getKeywords(snippet) == snippet.keywords

\* getSingleKeyword(node)
getSingleKeyword(node, snips) ==
    LET value == valueOf(node, snips)
    IN  IF /\ Len(value) = 1
           /\ Len(value[1].value) = 1
           /\ value[1].value[1].type = "Literal"
        THEN [found |-> TRUE, value |-> value[1].value[1].value]
        ELSE [found |-> FALSE, value |-> <<>>]

\* resolveSnippetKeyword(node, kw, snippet, minScore) for snippet = snips[si]
resolveSnippetKeyword(node, kw, si, snips, minScore, table) ==
    LET keywords == getKeywords(snips[si])
        ref == findBestMatch(kw, keywords, minScore, "ref", table)
    IN  IF ref # 0
        THEN [ok |-> TRUE,
              node |-> [node EXCEPT !.value = Shared(si, keywords[ref].index + 1)]]
        ELSE [ok |-> FALSE, node |-> node]

\* resolveGlobalKeyword(node, kw, config, minScore)
resolveGlobalKeyword(node, kw, cfg, minScore, table) ==
    LET ref == findBestMatch(kw, cfg.keywords, minScore, "string", table)
    IN  IF ref # 0
        THEN [ok |-> TRUE,
              node |-> [node EXCEPT !.value = Own(<<literalValue(cfg.keywords[ref])>>)]]
        ELSE [ok |-> FALSE, node |-> node]

\* setNodeAsText(node, text)
setNodeAsText(node, text) ==
    [node EXCEPT !.name = Void, !.value = Own(<<literalValue(text)>>)]

\* resolveAsSnippet(node, snippet)
resolveAsSnippet(node, snippet) == setNodeAsText(node, snippet.value)

\* line 69 left out: the node keeps the abbreviation as its name
renameKeep(node, snippet) == node

\* line 69: node.name = snippet.property
rename(node, snippet) == [node EXCEPT !.name = snippet.property]

\* resolveAsProperty(node, snippet, config) for snippet = snips[si]. `via`
\* names the branch that set the value.
resolveAsProperty(node, si, snips, cfg, table) ==
    LET snippet == snips[si]
        abbr == node.name
        named == rename(node, snippet)
    IN  IF Len(valueOf(node, snips)) = 0
        THEN LET alias == resolveSnippetKeyword(named, getUnmatchedPart(abbr, snippet.key),
                                                si, snips, 0, table)
             IN  IF alias.ok THEN [node |-> alias.node, via |-> "keyword"]
                 ELSE IF Len(snippet.value) = 0 THEN [node |-> named, via |-> "bare"]
                 ELSE IF \E g \in 1..Len(snippet.value[1]) : hasField(snippet.value[1][g])
                 THEN [node |-> [named EXCEPT !.value = Shared(si, 1)], via |-> "default"]
                 ELSE [node |-> [named EXCEPT !.value = Own(wrapDefaultValue(snippet.value[1]))],
                       via |-> "wrapped"]
        ELSE LET kw == getSingleKeyword(named, snips)
                 alias == resolveSnippetKeyword(named, kw.value, si, snips, 0, table)
                 global == resolveGlobalKeyword(named, kw.value, cfg, 0, table)
             IN  IF ~kw.found THEN [node |-> named, via |-> "explicit"]
                 ELSE IF alias.ok THEN [node |-> alias.node, via |-> "explicit keyword"]
                 ELSE IF global.ok THEN [node |-> global.node, via |-> "global keyword"]
                 ELSE [node |-> named, via |-> "explicit"]

\* resolveAsPropertyValue(node, config, snippet) for snippet = snips[si];
\* si = 0 when no snippet was found
resolveAsPropertyValue(node, cfg, si, snips, table) ==
    LET kw == getSingleKeyword(node, snips)
        score == cfg.minScore
        alias == resolveSnippetKeyword(node, kw.value, si, snips, score, table)
        global == resolveGlobalKeyword(node, kw.value, cfg, score, table)
    IN  IF ~kw.found THEN [node |-> node, via |-> "context"]
        ELSE IF si # 0 /\ alias.ok THEN [node |-> alias.node, via |-> "context keyword"]
        ELSE IF global.ok THEN [node |-> global.node, via |-> "context global"]
        ELSE [node |-> node, via |-> "context"]

\* snippets.find(s => s.type === Property && s.property === config.context):
\* the position of the first such snippet, 0 for undefined
findContextSnippet(snips, cfg) ==
    LET hits == {i \in 1..Len(snips) :
                    snips[i].type = "Property" /\ snips[i].property = cfg.context}
    IN  IF hits = {} THEN 0 ELSE CHOOSE i \in hits : \A j \in hits : i <= j

\* lines 43-57 of resolveNode: the node before numeric-unit inference
resolveMatch(node, snips, cfg, table) ==
    IF cfg.context # NoContext
    THEN resolveAsPropertyValue(node, cfg, findContextSnippet(snips, cfg), snips, table)
    ELSE LET si == findBestMatch(node.name, snips, cfg.minScore, "snippet", table)
         IN  IF si = 0 THEN [node |-> node, via |-> "none"]
             ELSE IF snips[si].type = "Property"
             THEN resolveAsProperty(node, si, snips, cfg, table)
             ELSE [node |-> resolveAsSnippet(node, snips[si]), via |-> "snippet"]

\* resolveNode(node, snippets, config): the node and the snippet table after
\* the call. resolveNumericValue updates the tokens of the array node.value
\* refers to in place: the node's own array, or the array of the snippet
\* table the node shares.
resolveNode(node, snips, cfg, table) ==
    LET m == resolveMatch(node, snips, cfg, table)
        value == resolveNumericValue(valueOf(m.node, snips), m.node.name, cfg)
        ref == m.node.value.ref
    IN  IF ref = NoRef
        THEN [node |-> [m.node EXCEPT !.value = Own(value)], snippets |-> snips,
              via |-> m.via]
        ELSE [node |-> m.node,
              snippets |-> [snips EXCEPT ![ref[1]].value[ref[2]] = value],
              via |-> m.via]
-----------------------------------------------------------------------------
(* The strings of the inputs *)

px == <<"p", "x">>
em == <<"e", "m">>
rem == <<"r", "e", "m">>
unitE == <<"e">>
unitP == <<"p">>
percent == <<"%">>
border == <<"b", "o", "r", "d", "e", "r">>
transform == <<"t", "r", "a", "n", "s", "f", "o", "r", "m">>
lineHeight == <<"l", "i", "n", "e", "-", "h", "e", "i", "g", "h", "t">>
width == <<"w", "i", "d", "t", "h">>
keyP == <<"p">>
keyPosA == <<"p", "o", "s", "-", "a">>
keyBd == <<"b", "d">>
keyTf == <<"t", "f">>
keyBang == <<"!">>
absolute == <<"a", "b", "s", "o", "l", "u", "t", "e">>
solid == <<"s", "o", "l", "i", "d">>
scale == <<"s", "c", "a", "l", "e">>
auto == <<"a", "u", "t", "o">>
important == <<"!", "i", "m", "p", "o", "r", "t", "a", "n", "t">>
black == <<"#", "0", "0", "0">>
bds == <<"b", "d", "s">>
nameX == <<"x">>
kwS == <<"s">>

\* the strings of the documented examples of getUnmatchedPart
poas == <<"p", "o", "a", "s">>
position == <<"p", "o", "s", "i", "t", "i", "o", "n">>
pos == <<"p", "o", "s">>
abc == <<"a", "b", "c">>
xyz == <<"x", "y", "z">>

-----------------------------------------------------------------------------
(* Numbers on both sides of the signed 32-bit range *)

One == Num(0, 1, FALSE)
Ten == Num(0, 10, FALSE)
OneAndHalf == Num(0, 1, TRUE)
MinusHalf == Num(-1, Two16 - 1, TRUE)
MaxInt32 == Num(Two15 - 1, Two16 - 1, FALSE)
TwoTo31 == Num(Two15, 0, FALSE)
TwoTo31AndHalf == Num(Two15, 0, TRUE)
MinInt32 == Num(-Two15, 0, FALSE)
BelowMinInt32 == Num(-Two15 - 1, Two16 - 1, FALSE)
TwoTo32 == Num(Two16, 0, FALSE)

Numbers == {Zero, One, Ten, OneAndHalf, MinusHalf, MaxInt32, TwoTo31,
            TwoTo31AndHalf, MinInt32, BelowMinInt32, TwoTo32}

-----------------------------------------------------------------------------
(* Snippet tables, as convertSnippets builds them *)

Property(key, property, value, keywords) ==
    [type |-> "Property", key |-> key, property |-> property, value |-> value,
     keywords |-> keywords]

Raw(key, value) == [type |-> "Raw", key |-> key, value |-> value]

KeywordRef(keyword, index) == [keyword |-> keyword, index |-> index]

\* {"p": "position", "pos-a": "position:absolute"}
ScenarioTable ==
    <<Property(keyP, position, <<>>, <<>>),
      Property(keyPosA, position, <<(<<CSSValue(<<literal(absolute)>>)>>)>>,
               <<KeywordRef(absolute, 0)>>)>>

\* {"bd": "border:1 solid ${3:#000}"}: a default value that holds a field
BorderTable ==
    <<Property(keyBd, border,
               <<(<<CSSValue(<<NumberValue(One, <<>>), literal(solid), field(3, black)>>)>>)>>,
               <<KeywordRef(solid, 0)>>)>>

\* {"!": "!important", "tf": "transform:scale(1, 10px), auto 1"}: a raw
\* snippet, and a default value without fields, of two value groups with a
\* function call
TransformTable ==
    <<Raw(keyBang, important),
      Property(keyTf, transform,
               <<(<<CSSValue(<<FunctionCall(scale,
                                  <<CSSValue(<<NumberValue(One, <<>>)>>),
                                    CSSValue(<<NumberValue(Ten, px)>>)>>)>>),
                    CSSValue(<<literal(auto), NumberValue(One, <<>>)>>)>>)>>,
               <<KeywordRef(scale, 0)>>)>>

SnippetTables == {ScenarioTable, BorderTable, TransformTable}

\* the strings findBestMatch scores in a resolution with these snippets
Candidates(snips, cfg) ==
    {snips[i].key : i \in 1..Len(snips)}
        \cup UNION {{getKeywords(snips[i])[k].keyword : k \in 1..Len(getKeywords(snips[i]))} :
                        i \in {j \in 1..Len(snips) : snips[j].type = "Property"}}
        \cup {cfg.keywords[k] : k \in 1..Len(cfg.keywords)}

-----------------------------------------------------------------------------
(* Configurations *)

NoAliases == [u \in {} |-> <<>>]
\* stylesheet.unitAliases of the default configuration
DefaultAliases == (unitE :> em) @@ (unitP :> percent)
\* an alias whose target is an alias itself
ChainedAliases == (unitE :> em) @@ (em :> rem)

Config(context, minScore, unitAliases, unitless, intUnit, floatUnit) ==
    [context |-> context, minScore |-> minScore, unitAliases |-> unitAliases,
     unitless |-> unitless, intUnit |-> intUnit, floatUnit |-> floatUnit,
     keywords |-> <<auto>>]

ResolveConfigs ==
    {Config(context, minScore, DefaultAliases, unitless, px, em) :
        context \in {NoContext, border, transform},
        minScore \in Scores,
        unitless \in {{lineHeight}, {lineHeight, border, position}}}

NumericConfigs ==
    {Config(NoContext, 0, unitAliases, {lineHeight}, intUnit, floatUnit) :
        unitAliases \in {NoAliases, DefaultAliases, ChainedAliases},
        intUnit \in {px, unitE},
        floatUnit \in {em, unitE}}

-----------------------------------------------------------------------------
(* Nodes, as the abbreviation parser builds them *)

Node(name, value) == [name |-> name, value |-> Own(value)]

ParsedValues ==
    {<<>>,
     <<CSSValue(<<NumberValue(Ten, <<>>)>>)>>,
     <<CSSValue(<<literal(kwS)>>)>>,
     <<CSSValue(<<NumberValue(OneAndHalf, unitE), literal(auto)>>),
       CSSValue(<<FunctionCall(scale, <<CSSValue(<<NumberValue(One, <<>>)>>)>>),
                  ColorValue(black), StringValue(kwS, "single")>>)>>}

ParsedNodes == {Node(name, value) : name \in {keyP, bds, keyTf, nameX},
                                    value \in ParsedValues}

\* the node of the abbreviation p10
NodeP10 == Node(keyP, <<CSSValue(<<NumberValue(Ten, <<>>)>>)>>)

NumericUnits == {<<>>, unitE, em, px}

NumericValues ==
    {<<CSSValue(<<NumberValue(n, u)>>)>> : n \in Numbers, u \in NumericUnits}
        \cup {<<CSSValue(<<literal(auto), NumberValue(n, <<>>)>>),
                CSSValue(<<NumberValue(Ten, u), NumberValue(Zero, <<>>)>>)>> :
                    n \in {Ten, TwoTo31}, u \in NumericUnits}
-----------------------------------------------------------------------------
(* The tree walker *)

\* A node of the walked tree is its path of child positions from the
\* abbreviation root; the abbreviation root is the empty path.
Root == <<>>

\* the value of an unset `parent` / `current` (no node: positions start at 1)
Undefined == <<0>>

\* node.children
children(n) ==
    IF n # Undefined /\ Len(n) < Depth
    THEN [i \in 1..Fanout |-> Append(n, i)]
    ELSE <<>>

\* callback, lines 30-32: the state the visitor is invoked with
callbackEnter(st, ctx) ==
    [st EXCEPT !.parent = st.current, !.current = ctx]

\* callback without lines 34-35
callbackExitNoRestore(st, saved) == st

\* callback, lines 34-35: `saved` holds the locals parent and current
callbackExit(st, saved) ==
    [st EXCEPT !.current = saved.current, !.parent = saved.parent]

\* next, line 39, with the callee pushed instead of the caller
nextPushNode(st, node) ==
    [st EXCEPT !.ancestors = Append(st.ancestors, node)]

\* next, line 39
nextPush(st, node) ==
    [st EXCEPT !.ancestors = Append(st.ancestors, st.current)]

\* next, line 41
nextPop(st) ==
    [st EXCEPT !.ancestors = SubSeq(st.ancestors, 1, Len(st.ancestors) - 1)]

\* An activation of callback(ctx): the locals `parent` and `current`, whether
\* it was entered through next(), and the children the visitor has handed to
\* next() so far. `before` is the WalkState at the moment of the call (of
\* next() for a nested call, of callback() for a top-level one).
Frame(ctx, st, viaNext, before) ==
    [ctx |-> ctx, parent |-> st.parent, current |-> st.current,
     viaNext |-> viaNext, called |-> {}, before |-> before]

NoCall == [ctx |-> Undefined, returned |-> FALSE,
           before |-> [current |-> Undefined, parent |-> Undefined, ancestors |-> <<>>],
           after |-> [current |-> Undefined, parent |-> Undefined, ancestors |-> <<>>]]

\* abbr.children.forEach(callback), line 44: the next top-level child
WalkTopLevel ==
    /\ stack = <<>>
    /\ top <= Len(children(Root))
    /\ LET ctx == children(Root)[top]
       IN  /\ stack' = <<Frame(ctx, state, FALSE, state)>>
           /\ state' = callbackEnter(state, ctx)
    /\ UNCHANGED <<top, last, start, unmatched, match, numeric, resolveVars>>

\* the visitor, running for stack's last frame, calls next(child, i, items)
\* for a child of the node it visits that it has not descended into yet
VisitorCallsNext(i) ==
    /\ stack # <<>>
    /\ LET fr == stack[Len(stack)]
           node == children(fr.ctx)[i]
           pushed == nextPush(state, node)
       IN  /\ i \notin fr.called
           /\ stack' = Append([stack EXCEPT ![Len(stack)].called = fr.called \cup {i}],
                              Frame(node, pushed, TRUE, state))
           /\ state' = callbackEnter(pushed, node)
    /\ UNCHANGED <<top, last, start, unmatched, match, numeric, resolveVars>>

\* the visitor returns: callback restores current and parent, and next() (for
\* a nested call) pops the ancestor stack
VisitorReturns ==
    /\ stack # <<>>
    /\ LET fr == stack[Len(stack)]
           restored == callbackExit(state, fr)
           after == IF fr.viaNext THEN nextPop(restored) ELSE restored
       IN  /\ state' = after
           /\ last' = [ctx |-> fr.ctx, returned |-> TRUE,
                       before |-> fr.before, after |-> after]
           /\ top' = IF fr.viaNext THEN top ELSE top + 1
    /\ stack' = SubSeq(stack, 1, Len(stack) - 1)
    /\ UNCHANGED <<start, unmatched, match, numeric, resolveVars>>

-----------------------------------------------------------------------------
(* The values of the variables an operation does not use *)

IdleUnmatched == [abbr |-> <<>>, str |-> <<>>, done |-> FALSE, result |-> <<>>]
IdleMatch == [abbr |-> <<>>, items |-> <<>>, minScore |-> 0,
              table |-> <<>>, done |-> FALSE, result |-> 0]
IdleNumeric == [name |-> <<>>, cfg |-> Config(NoContext, 0, NoAliases, {}, <<>>, <<>>),
                original |-> <<>>, first |-> <<>>, value |-> <<>>, passes |-> 0]
IdleResolve ==
    /\ snippets = <<>>
    /\ built = <<>>
    /\ config = Config(NoContext, 0, NoAliases, {}, <<>>, <<>>)
    /\ parsed = [node |-> Node(<<>>, <<>>), done |-> FALSE, via |-> "", noMatch |-> FALSE]
    /\ cssNode = Node(<<>>, <<>>)
IdleWalk ==
    /\ state = [current |-> Undefined, parent |-> Undefined, ancestors |-> <<>>]
    /\ stack = <<>>
    /\ top = 1
    /\ last = NoCall
    /\ start = state

\* The walk starts with no ancestors and no parent; `current` is the
\* abbreviation root or is not set yet.
InitWalk ==
    /\ state \in {[current |-> c, parent |-> Undefined, ancestors |-> <<>>] :
                    c \in {Root, Undefined}}
    /\ stack = <<>>
    /\ top = 1
    /\ last = NoCall
    /\ start = state
    /\ unmatched = IdleUnmatched
    /\ match = IdleMatch
    /\ numeric = IdleNumeric
    /\ IdleResolve

NextWalk ==
    \/ WalkTopLevel
    \/ \E i \in 1..Fanout :
          /\ stack # <<>>
          /\ i <= Len(children(stack[Len(stack)].ctx))
          /\ VisitorCallsNext(i)
    \/ VisitorReturns

SpecWalk == InitWalk /\ [][NextWalk]_vars

-----------------------------------------------------------------------------
(* One call of getUnmatchedPart *)

UnmatchedInputs ==
    (Strings \X Strings) \cup {<<poas, position>>, <<abc, xyz>>, <<pos, position>>}

InitUnmatched ==
    /\ \E in \in UnmatchedInputs :
          unmatched = [abbr |-> in[1], str |-> in[2], done |-> FALSE, result |-> <<>>]
    /\ match = IdleMatch
    /\ numeric = IdleNumeric
    /\ IdleResolve
    /\ IdleWalk

CallGetUnmatchedPart ==
    /\ ~unmatched.done
    /\ unmatched' = [unmatched EXCEPT !.done = TRUE,
                        !.result = getUnmatchedPart(unmatched.abbr, unmatched.str)]
    /\ UNCHANGED <<match, numeric, resolveVars, walkVars>>

NextUnmatched == CallGetUnmatchedPart

SpecUnmatched == InitUnmatched /\ [][NextUnmatched]_vars

-----------------------------------------------------------------------------
(* One call of findBestMatch over string items *)

ItemStrings == {<<"p">>, <<"o">>, <<"s">>}

RECURSIVE ItemLists(_)
ItemLists(n) ==
    IF n = 0 THEN {<<>>}
    ELSE ItemLists(n - 1) \cup
         {Append(l, it) : l \in {x \in ItemLists(n - 1) : Len(x) = n - 1}, it \in ItemStrings}

InitMatch ==
    /\ match \in [abbr : {<<"p">>, <<"p", "o">>},
                  items : ItemLists(MaxItems),
                  minScore : Scores,
                  table : [ItemStrings -> Scores],
                  done : {FALSE},
                  result : {0}]
    /\ unmatched = IdleUnmatched
    /\ numeric = IdleNumeric
    /\ IdleResolve
    /\ IdleWalk

CallFindBestMatch ==
    /\ ~match.done
    /\ match' = [match EXCEPT !.done = TRUE,
                    !.result = findBestMatch(match.abbr, match.items, match.minScore,
                                             "string", match.table)]
    /\ UNCHANGED <<unmatched, numeric, resolveVars, walkVars>>

NextMatch == CallFindBestMatch

SpecMatch == InitMatch /\ [][NextMatch]_vars

-----------------------------------------------------------------------------
(* resolveNumericValue applied to one node, once and again *)

InitNumeric ==
    /\ \E name \in {width, lineHeight}, cfg \in NumericConfigs, value \in NumericValues :
          numeric = [name |-> name, cfg |-> cfg, original |-> value,
                     first |-> <<>>, value |-> value, passes |-> 0]
    /\ unmatched = IdleUnmatched
    /\ match = IdleMatch
    /\ IdleResolve
    /\ IdleWalk

CallResolveNumericValue ==
    /\ numeric.passes < 2
    /\ LET value == resolveNumericValue(numeric.value, numeric.name, numeric.cfg)
       IN  numeric' = [numeric EXCEPT !.value = value,
                          !.first = IF numeric.passes = 0 THEN value ELSE @,
                          !.passes = @ + 1]
    /\ UNCHANGED <<unmatched, match, resolveVars, walkVars>>

NextNumeric == CallResolveNumericValue

SpecNumeric == InitNumeric /\ [][NextNumeric]_vars

-----------------------------------------------------------------------------
(* parse: one node resolved against a snippet table *)

Init ==
    /\ snippets \in SnippetTables
    /\ built = snippets
    /\ config \in ResolveConfigs
    /\ \E n \in ParsedNodes :
          /\ parsed = [node |-> n, done |-> FALSE, via |-> "", noMatch |-> FALSE]
          /\ cssNode = n
    /\ unmatched = IdleUnmatched
    /\ match = IdleMatch
    /\ numeric = IdleNumeric
    /\ IdleWalk

\* parse(abbr, config, snippets) for an abbreviation of one node. The scorer
\* is any function of the candidate strings that gives a string itself the
\* score 1; noMatch records that no snippet key scores above 0 and at least
\* stylesheet.fuzzySearchMinScore against the name of the node.
Parse ==
    /\ ~parsed.done
    /\ \E table \in [Candidates(snippets, config) -> Scores] :
          LET r == resolveNode(cssNode, snippets, config, table)
              keyScore(i) == calculateScore(table, cssNode.name, snippets[i].key)
          IN  /\ cssNode' = r.node
              /\ snippets' = r.snippets
              /\ parsed' = [parsed EXCEPT !.done = TRUE, !.via = r.via,
                               !.noMatch = \A i \in 1..Len(snippets) :
                                              ~(keyScore(i) > 0 /\ keyScore(i) >= config.minScore)]
    /\ UNCHANGED <<built, config, unmatched, match, numeric, walkVars>>

Next == Parse

Spec == Init /\ [][Next]_vars

-----------------------------------------------------------------------------
(* Properties of the tree walker *)

\* the node whose visitor invocation is running
Visited == stack[Len(stack)].ctx

\* the chain from the abbreviation root to the parent of n
RootToParent(n) == [k \in 1..Len(n) |-> SubSeq(n, 1, k - 1)]

\* the chain from the top-level node above n to the parent of n: the
\* root-to-parent path without the abbreviation root
TopLevelToParent(n) == [k \in 1..(Len(n) - 1) |-> SubSeq(n, 1, k)]

\* C4 as stated: in a walk started with state.current at the abbreviation
\* root and no ancestors, during every visitor invocation state.ancestors is
\* the path from the tree root to the parent of the visited node.
WalkAncestorsRootToParent ==
    (stack # <<>> /\ start.current = Root)
        => state.ancestors = RootToParent(Visited)

\* C4 amended: during every visitor invocation state.ancestors is the path
\* from the top-level node (the child of the abbreviation root) above the
\* visited node to the parent of the visited node; the abbreviation root is
\* not part of it, and it is empty for a top-level node.
WalkAncestorsBelowRoot ==
    (stack # <<>> /\ start.current = Root)
        => state.ancestors = TopLevelToParent(Visited)

\* C4 witness: the visitor runs for a node of the third level
WalkAtThirdLevel ==
    /\ start.current = Root
    /\ Len(stack) = 3
    /\ Len(Visited) = 3

\* C5: when a visitor invocation has returned, state.current, state.parent
\* and state.ancestors are what they were before the invocation, whichever
\* children the visitor descended into; and when no invocation is running
\* (between top-level siblings and when walk returns) they are what they
\* were at the start of the walk.
WalkRestoresState ==
    /\ last.returned => last.after = last.before
    /\ stack = <<>> => state = start

\* C5 witness: a nested invocation returned into a visitor that had already
\* descended into another child
WalkNestedReturned ==
    /\ last.returned
    /\ Len(last.ctx) >= 2
    /\ stack # <<>>
    /\ Cardinality(stack[Len(stack)].called) >= 2

-----------------------------------------------------------------------------
(* Properties of getUnmatchedPart *)

\* a is a subsequence of s (full search, not the greedy scan)
RECURSIVE IsSubsequence(_, _)
IsSubsequence(a, s) ==
    IF a = <<>> THEN TRUE
    ELSE IF s = <<>> THEN FALSE
    ELSE \/ a[1] = s[1] /\ IsSubsequence(Tail(a), Tail(s))
         \/ IsSubsequence(a, Tail(s))

Chars(s) == {s[k] : k \in 1..Len(s)}

\* C8: the result is the suffix of abbr that starts at the first character
\* the scan cannot match: the part before it is a subsequence of str and
\* stops being one when that character is added. The result is empty exactly
\* when abbr is a subsequence of str, it is abbr when the first character of
\* abbr does not occur in str, and the three documented examples hold.
UnmatchedRemainder ==
    unmatched.done =>
        LET abbr == unmatched.abbr
            str == unmatched.str
            r == unmatched.result
            k == Len(abbr) - Len(r)
        IN  /\ k >= 0
            /\ r = slice(abbr, k)
            /\ IsSubsequence(SubSeq(abbr, 1, k), str)
            /\ k < Len(abbr) => ~IsSubsequence(SubSeq(abbr, 1, k + 1), str)
            /\ (r = <<>>) <=> IsSubsequence(abbr, str)
            /\ (abbr # <<>> /\ abbr[1] \notin Chars(str)) => r = abbr
            /\ (abbr = poas /\ str = position) => r = <<"a", "s">>
            /\ (abbr = abc /\ str = xyz) => r = abc
            /\ (abbr = pos /\ str = position) => r = <<>>

\* C8 witness: a scan that matched some characters and then failed
UnmatchedPartial ==
    /\ unmatched.done
    /\ unmatched.abbr = poas
    /\ unmatched.str = position
    /\ unmatched.result = <<"a", "s">>

-----------------------------------------------------------------------------
(* Properties of findBestMatch *)

ScoreAt(i) == calculateScore(match.table, match.abbr, match.items[i])

BestScore ==
    CHOOSE b \in Scores :
        /\ \A i \in 1..Len(match.items) : ScoreAt(i) <= b
        /\ b = 0 \/ \E i \in 1..Len(match.items) : ScoreAt(i) = b

Tied == {i \in 1..Len(match.items) : ScoreAt(i) = BestScore}

\* no item scores 1, and two or more items share the highest score, which
\* is not zero and reaches minScore
TieCase ==
    /\ match.done
    /\ BestScore # 0
    /\ BestScore # ScoreOne
    /\ BestScore >= match.minScore
    /\ Cardinality(Tied) >= 2

\* C1 as stated: in a tie for the highest score the item that comes first in
\* the input order is returned.
BestMatchTieFirst ==
    TieCase =>
        /\ match.result # 0
        /\ match.items[match.result] =
               match.items[CHOOSE i \in Tied : \A j \in Tied : i <= j]

\* C1 amended: in a tie for the highest score the item that comes last in
\* the input order is returned.
BestMatchTieLast ==
    TieCase => match.result = CHOOSE i \in Tied : \A j \in Tied : i >= j

\* C1 witness: a tie between two different items
BestMatchTie ==
    /\ TieCase
    /\ \E i \in Tied, j \in Tied : match.items[i] # match.items[j]

-----------------------------------------------------------------------------
(* Properties of resolveNumericValue *)

\* the tokens of a value list, value group after value group
RECURSIVE tokensOf(_)
tokensOf(value) ==
    IF value = <<>> THEN <<>> ELSE value[1].value \o tokensOf(Tail(value))

\* the positions of the NumberValue tokens the node was given without a unit
GivenWithoutUnit == {k \in 1..Len(tokensOf(numeric.original)) :
                /\ tokensOf(numeric.original)[k].type = "NumberValue"
                /\ tokensOf(numeric.original)[k].unit = <<>>}

\* the positions of the NumberValue tokens the node was given with a unit
GivenWithUnit == {k \in 1..Len(tokensOf(numeric.original)) :
                /\ tokensOf(numeric.original)[k].type = "NumberValue"
                /\ tokensOf(numeric.original)[k].unit # <<>>}

\* C6: a NumberValue token without a unit receives a unit exactly when its
\* value is not zero and the name of the node is not in the unitless set, and
\* the unit is intUnit for every whole number, floatUnit otherwise; a zero
\* never gains a unit.
NumericDefaultUnit ==
    numeric.passes >= 1 =>
        \A k \in GivenWithoutUnit :
            LET t == tokensOf(numeric.original)[k]
            IN  tokensOf(numeric.first)[k].unit =
                    IF t.value # Zero /\ numeric.name \notin numeric.cfg.unitless
                    THEN (IF ~t.value.half THEN numeric.cfg.intUnit
                          ELSE numeric.cfg.floatUnit)
                    ELSE <<>>

\* a token with an explicit unit is changed only by the replacement of the
\* unit with its alias
ExplicitUnitOnlyAliased ==
    numeric.passes >= 1 =>
        \A k \in GivenWithUnit :
            LET t == tokensOf(numeric.original)[k]
            IN  tokensOf(numeric.first)[k] =
                    NumberValue(t.value, aliasOf(numeric.cfg.unitAliases, t.unit))

\* C7 as stated: for every configuration a second resolveNumericValue
\* changes nothing, and an explicit unit is changed only by its alias.
NumericIdempotent ==
    /\ numeric.passes = 2 => numeric.value = numeric.first
    /\ ExplicitUnitOnlyAliased

\* no alias target and neither default unit is itself aliased
AliasesClosed(cfg) ==
    \A u \in {cfg.unitAliases[a] : a \in DOMAIN cfg.unitAliases}
                \cup {cfg.intUnit, cfg.floatUnit} :
        aliasOf(cfg.unitAliases, u) = u

\* C7 amended: when no alias target and neither default unit is itself a key
\* of the alias map, a second resolveNumericValue changes nothing; and for
\* every configuration an explicit unit is changed only by its alias.
NumericIdempotentClosedAliases ==
    /\ (numeric.passes = 2 /\ AliasesClosed(numeric.cfg)) => numeric.value = numeric.first
    /\ ExplicitUnitOnlyAliased

\* C7 witness: the second pass ran on a node whose first pass replaced an
\* alias and assigned a default unit
NumericSecondPass ==
    /\ numeric.passes = 2
    /\ AliasesClosed(numeric.cfg)
    /\ numeric.first # numeric.original
    /\ \E k \in GivenWithUnit : tokensOf(numeric.first)[k] # tokensOf(numeric.original)[k]
    /\ \E k \in GivenWithoutUnit : tokensOf(numeric.first)[k].unit # <<>>

-----------------------------------------------------------------------------
(* Properties of the resolution of a node *)

\* C2: resolution does not change the snippet table: every value list and
\* every token of it, the unit of a NumberValue included, is as built.
SnippetsUnchanged == parsed.done => snippets = built

\* the indices of the Field tokens of a value list, in order
fieldIndices(toks) ==
    LET at == {k \in 1..Len(toks) : toks[k].type = "Field"}
        nth(n) == CHOOSE k \in at : Cardinality({j \in at : j <= k}) = n
    IN  [n \in 1..Cardinality(at) |-> toks[nth(n)].index]

\* C3: when the node had no value and received the field-free default value
\* of the snippet, the Field tokens of the whole node value carry the indices
\* 1..N in order, without gap or repetition.
FieldsNumberedAcrossValue ==
    (parsed.done /\ parsed.via = "wrapped") =>
        LET indices == fieldIndices(tokensOf(valueOf(cssNode, snippets)))
        IN  indices = [n \in 1..Len(indices) |-> n]

\* a value list with every unit of a NumberValue token erased
eraseUnits(value) ==
    [v \in 1..Len(value) |->
        [value[v] EXCEPT !.value =
            [t \in 1..Len(value[v].value) |->
                IF value[v].value[t].type = "NumberValue"
                THEN [value[v].value[t] EXCEPT !.unit = <<>>]
                ELSE value[v].value[t]]]]

ScenarioP10 ==
    /\ parsed.done
    /\ built = ScenarioTable
    /\ parsed.node = NodeP10
    /\ config.context = NoContext
    /\ position \notin config.unitless

\* C10 as stated: p10 against {"p": "position", "pos-a": "position:absolute"}
\* resolves to position with a field-wrapped value 10 with the integer unit.
ScenarioP10FieldWrapped ==
    ScenarioP10 =>
        /\ cssNode.name = position
        /\ Len(valueOf(cssNode, snippets)) = 1
        /\ \A k \in 1..Len(tokensOf(valueOf(cssNode, snippets))) :
               tokensOf(valueOf(cssNode, snippets))[k].type = "Field"

\* C10 amended: p10 resolves to position with the explicit value kept as it
\* was typed, the NumberValue 10, not wrapped in a field, with the integer
\* unit.
ScenarioP10PlainNumber ==
    ScenarioP10 =>
        /\ cssNode.name = position
        /\ cssNode.value = Own(<<CSSValue(<<NumberValue(Ten, config.intUnit)>>)>>)

\* C10 witness: the scenario was resolved through the snippet p
ScenarioP10Resolved ==
    /\ ScenarioP10
    /\ parsed.via = "explicit"
    /\ cssNode.name = position
====
